---- MODULE Spec2Model ----
(***************************************************************************)
(* A model of a7az0th::ThreadManager (src/threadman.h): the boss/worker    *)
(* handshake of run / exec / killall, the Event primitive (a condition     *)
(* variable waited on without a predicate), and MultiThreadedFor's atomic  *)
(* cursor.  One boss thread issues any sequence of run and killall         *)
(* calls; each pool slot has one worker thread executing exec.             *)
(*                                                                         *)
(* Every access of a slot's volatile state field, of the std::atomic        *)
(* counters and of an Event is one step, taken in program order            *)
(* (sequentially consistent); writes that no other thread can observe in   *)
(* between (the fields of a slot set before its state) share a step.       *)
(* Event::wait is std::condition_variable::wait without a predicate: it    *)
(* returns after a notify_one() that finds the thread blocked, or          *)
(* spuriously; a notify_one() that finds no thread blocked is lost.        *)
(***************************************************************************)
EXTENDS Integers, FiniteSets, Sequences, TLC

\* const int MAX_CPU_COUNT = 64: the size of the info[] array.
MAX_CPU_COUNT == 64

\* Bounds of the model.
MaxThreads == 3     \* worker counts requested of a plain task are 1..MaxThreads
MaxForThreads == 2  \* worker counts requested of a fork-join task are 1..MaxForThreads
MaxIter == 2        \* iteration counts of the fork-join task are 0..MaxIter

Slots == 0 .. (MaxThreads - 1)
IterRange == 0 .. (MaxIter + MaxThreads)

\* enum ThreadState
THREAD_INIT == "THREAD_INIT"
THREAD_IDLE == "THREAD_IDLE"
THREAD_RUNNING == "THREAD_RUNNING"
THREAD_DONE == "THREAD_DONE"
THREAD_DEAD == "THREAD_DEAD"
\* The state of a slot that has not been written yet (info[] is not
\* initialised by the constructor; the code never reads the state then).
Unset == "unset"
NULL == "NULL"

\* The two task types of main.cpp: A is a plain MultiThreaded task, B a
\* MultiThreadedFor task.
Jobs == {"A", "B"}

VARIABLES
    threadsInPool,  \* ThreadManager::threadsInPool
    counter,        \* ThreadManager::counter (atomic)
    info,           \* ThreadManager::info[]: index, numThreads, state, algorithm
    wpc,            \* position of each slot's worker thread inside exec
    wargs,          \* (index, numThreads) a worker passed to threadProc
    wi,             \* the local i of a worker's MultiThreadedFor::threadProc
    bpc,            \* position of the boss thread
    job,            \* argument job of the current ThreadManager::run
    numThreads,     \* argument numThreads of the current ThreadManager::run
    bi,             \* the loop variable i of ThreadManager::run
    bIter,          \* the local i of threadProc run by the boss (numThreads == 1)
    idx,            \* MultiThreadedFor::idx (atomic cursor)
    count,          \* MultiThreadedFor::count
    procCalls,      \* history: invocations of threadProc per index in this call
    procN,          \* history: numThreads received by threadProc per index
    bodyCalls,      \* history: invocations of body per iteration index in this call
    spawned,        \* history: threads started per slot since the last teardown
    maxReq          \* history: the largest numThreads >= 2 requested since then

vars == <<threadsInPool, counter, info, wpc, wargs, wi, bpc, job, numThreads, bi,
          bIter, idx, count, procCalls, procN, bodyCalls, spawned,
          maxReq>>

poolVars == <<threadsInPool, counter, info>>
workerVars == <<wpc, wargs, wi>>
callVars == <<job, numThreads>>
forVars == <<idx, count>>
histVars == <<procCalls, procN, bodyCalls>>
growVars == <<spawned, maxReq>>

NoArgs == <<0, 0>>

Init ==
    /\ threadsInPool = 0
    /\ counter = 0
    /\ info = [s \in Slots |-> [index |-> 0, numThreads |-> 0,
                                state |-> Unset, algorithm |-> NULL]]
    /\ wpc = [s \in Slots |-> "none"]
    /\ wargs = [s \in Slots |-> NoArgs]
    /\ wi = [s \in Slots |-> 0]
    /\ bpc = "ready"
    /\ job = NULL
    /\ numThreads = 0
    /\ bi = 0
    /\ bIter = 0
    /\ idx = 0
    /\ count = 0
    /\ procCalls = [s \in Slots |-> 0]
    /\ procN = [s \in Slots |-> 0]
    /\ bodyCalls = [k \in IterRange |-> 0]
    /\ spawned = [s \in Slots |-> 0]
    /\ maxReq = 0

(***************************************************************************)
(* Event (src/threadman.h:36-63).  A thread blocked in wait() is a thread  *)
(* whose position is "waiting" (a worker, on its slot's changedState) or   *)
(* "r_waiting" (the boss, on waitForThreads).  signal() is notify_one():   *)
(* it releases the thread if it is blocked and is lost otherwise.          *)
(***************************************************************************)
SignalChangedState(s) ==
    wpc' = IF wpc[s] = "waiting" THEN [wpc EXCEPT ![s] = "switch"] ELSE wpc

SignalWaitForThreads ==
    IF bpc = "r_waiting" THEN "r_round" ELSE bpc

(***************************************************************************)
(* The boss: MultiThreaded::run / MultiThreadedFor::run, ThreadManager::run *)
(***************************************************************************)
ResetHistory ==
    /\ procCalls' = [s \in Slots |-> 0]
    /\ procN' = [s \in Slots |-> 0]
    /\ bodyCalls' = [k \in IterRange |-> 0]

\* MultiThreaded::run(threadman, n) on a plain task: forwards to threadman.run.
CallRun(n) ==
    /\ bpc = "ready"
    /\ n <= MAX_CPU_COUNT
    /\ job' = "A"
    /\ numThreads' = n
    /\ bpc' = "r_entry"
    /\ ResetHistory
    /\ UNCHANGED <<poolVars, workerVars, forVars, growVars, bi, bIter>>

\* MultiThreadedFor::run(threadman, m, n): idx = 0; count = m; then run.
CallForRun(m, n) ==
    /\ bpc = "ready"
    /\ n <= MAX_CPU_COUNT
    /\ idx' = 0
    /\ count' = m
    /\ job' = "B"
    /\ numThreads' = n
    /\ bpc' = "r_entry"
    /\ ResetHistory
    /\ UNCHANGED <<poolVars, workerVars, growVars, bi, bIter>>

\* A run without the single-thread fast path.
FastPathMissing(n) == FALSE

\* if (numThreads == 1)
FastPath(n) == n = 1

\* The record of one invocation threadProc(index, n).
RecordProc(index, n) ==
    /\ procCalls' = [procCalls EXCEPT ![index] = @ + 1]
    /\ procN' = [procN EXCEPT ![index] = n]

\* The record of one invocation body(i, threadIdx, n).
RecordBody(i, threadIdx) ==
    bodyCalls' = [bodyCalls EXCEPT ![i] = @ + 1]

\* job->threadProc(0, 1): the boss enters A::threadProc or
\* MultiThreadedFor::threadProc.
RunSingle ==
    /\ bpc = "r_entry"
    /\ FastPath(numThreads)
    /\ RecordProc(0, 1)
    /\ bpc' = IF job = "B" THEN "b_claim" ELSE "b_procA"
    /\ UNCHANGED <<poolVars, workerVars, callVars, forVars, growVars, bi, bIter,
                   bodyCalls>>

\* A::threadProc, executed by the boss, returns; run returns
BossProcA ==
    /\ bpc = "b_procA"
    /\ bpc' = "ready"
    /\ UNCHANGED <<poolVars, workerVars, callVars, forVars, growVars, bi, bIter,
                   histVars>>

\* the loop test of MultiThreadedFor::threadProc: (i = idx++) < count
Claimed(i, c) == i < c

\* while ((i = idx++) < count), executed by the boss
BossClaim ==
    /\ bpc = "b_claim"
    /\ idx' = idx + 1
    /\ IF Claimed(idx, count)
          THEN bIter' = idx /\ bpc' = "b_body"
          ELSE bIter' = 0 /\ bpc' = "ready"
    /\ UNCHANGED <<poolVars, workerVars, callVars, count, growVars, bi, histVars>>

\* body(i, index, numThreads), executed by the boss with index 0
BossBody ==
    /\ bpc = "b_body"
    /\ RecordBody(bIter, 0)
    /\ bpc' = "b_claim"
    /\ UNCHANGED <<poolVars, workerVars, callVars, forVars, growVars, bi, bIter,
                   procCalls, procN>>

RunMulti ==
    /\ bpc = "r_entry"
    /\ ~FastPath(numThreads)
    /\ bpc' = "r_spawn"
    /\ maxReq' = IF numThreads > maxReq THEN numThreads ELSE maxReq
    /\ UNCHANGED <<poolVars, workerVars, callVars, forVars, spawned, bi, bIter,
                   histVars>>

\* A spawn loop that runs once too often: threadsInPool <= numThreads.
NeedSpawnOneMore == threadsInPool <= numThreads /\ threadsInPool \in Slots

\* while (threadsInPool < numThreads)
NeedSpawn == threadsInPool < numThreads

\* spawnNewThread(): initialise info[threadsInPool], start the thread in
\* exec, ++threadsInPool, then numThreads = threadsInPool in every live slot.
SpawnNewThread ==
    /\ threadsInPool \in Slots
    /\ threadsInPool' = threadsInPool + 1
    /\ info' = [s \in Slots |->
                 IF s = threadsInPool
                    THEN [index |-> threadsInPool, numThreads |-> threadsInPool + 1,
                          state |-> THREAD_INIT, algorithm |-> NULL]
                    ELSE IF s < threadsInPool
                            THEN [info[s] EXCEPT !.numThreads = threadsInPool + 1]
                            ELSE info[s]]
    /\ wpc' = [wpc EXCEPT ![threadsInPool] = "set_idle"]
    /\ spawned' = [spawned EXCEPT ![threadsInPool] = @ + 1]

RunSpawn ==
    /\ bpc = "r_spawn"
    /\ NeedSpawn
    /\ SpawnNewThread
    /\ UNCHANGED <<counter, wargs, wi, bpc, callVars, forVars, bi, bIter, histVars,
                   maxReq>>

\* counter = numThreads; for (int i = 0; ...
RunSetCounter ==
    /\ bpc = "r_spawn"
    /\ ~NeedSpawn
    /\ counter' = numThreads
    /\ bi' = 0
    /\ bpc' = "r_init"
    /\ UNCHANGED <<threadsInPool, info, workerVars, callVars, forVars, growVars,
                   bIter, histVars>>

\* A dispatch loop that initialises the slots up to threadsInPool instead of
\* numThreads.
RunInitSlotAll ==
    /\ bpc = "r_init"
    /\ bi < threadsInPool
    /\ info' = [info EXCEPT ![bi].index = bi, ![bi].numThreads = numThreads,
                            ![bi].algorithm = job]
    /\ bpc' = "r_poll"
    /\ UNCHANGED <<threadsInPool, counter, workerVars, callVars, forVars, growVars,
                   bi, bIter, histVars>>

\* info[i].index = i; info[i].numThreads = numThreads; info[i].algorithm = job;
RunInitSlot ==
    /\ bpc = "r_init"
    /\ bi < numThreads
    /\ info' = [info EXCEPT ![bi].index = bi, ![bi].numThreads = numThreads,
                            ![bi].algorithm = job]
    /\ bpc' = "r_poll"
    /\ UNCHANGED <<threadsInPool, counter, workerVars, callVars, forVars, growVars,
                   bi, bIter, histVars>>

\* while (info[i].state != THREAD_IDLE) wait(20);
RunPollIdle ==
    /\ bpc = "r_poll"
    /\ info[bi].state = THREAD_IDLE
    /\ bpc' = "r_setrun"
    /\ UNCHANGED <<poolVars, workerVars, callVars, forVars, growVars, bi, bIter,
                   histVars>>

\* info[i].state = THREAD_RUNNING;
RunSetRunning ==
    /\ bpc = "r_setrun"
    /\ info' = [info EXCEPT ![bi].state = THREAD_RUNNING]
    /\ bpc' = "r_signal"
    /\ UNCHANGED <<threadsInPool, counter, workerVars, callVars, forVars, growVars,
                   bi, bIter, histVars>>

\* info[i].changedState.signal(); i++
RunSignal ==
    /\ bpc = "r_signal"
    /\ SignalChangedState(bi)
    /\ bi' = bi + 1
    /\ bpc' = "r_init"
    /\ UNCHANGED <<poolVars, wargs, wi, callVars, forVars, growVars, bIter, histVars>>

\* the for loop of run ends; the boss is about to call waitForThreads.wait()
RunLoopEnd ==
    /\ bpc = "r_init"
    /\ ~(bi < numThreads)
    /\ bpc' = "r_wait"
    /\ UNCHANGED <<poolVars, workerVars, callVars, forVars, growVars, bi, bIter,
                   histVars>>

\* waitForThreads.wait(): the boss locks the mutex and blocks
RunWait ==
    /\ bpc = "r_wait"
    /\ bpc' = "r_waiting"
    /\ UNCHANGED <<poolVars, workerVars, callVars, forVars, growVars, bi, bIter,
                   histVars>>

\* c.wait(lk) of waitForThreads returns without a notification
BossSpuriousWake ==
    /\ bpc = "r_waiting"
    /\ bpc' = "r_round"
    /\ UNCHANGED <<poolVars, workerVars, callVars, forVars, growVars, bi, bIter,
                   histVars>>

\* A round-robin loop that looks at slot 0 only.
AllIdleFirstOnly(n) == info[0].state = THREAD_IDLE

\* A run that returns as soon as waitForThreads.wait() does, without the
\* round-robin loop.
AllIdleUnchecked(n) == TRUE

\* the round-robin loop: good iff info[i].state == THREAD_IDLE for all i < numThreads
AllIdle(n) == \A s \in Slots : s < n => info[s].state = THREAD_IDLE

RunRound ==
    /\ bpc = "r_round"
    /\ AllIdle(numThreads)
    /\ bpc' = "ready"
    /\ bi' = 0
    /\ UNCHANGED <<poolVars, workerVars, callVars, forVars, growVars, bIter, histVars>>

(***************************************************************************)
(* The boss: ThreadManager::killall (also run by ~ThreadManager)           *)
(***************************************************************************)
CallKillall ==
    /\ bpc = "ready"
    /\ job' = NULL
    /\ numThreads' = 0
    /\ bpc' = "k_loop"
    /\ ResetHistory
    /\ UNCHANGED <<poolVars, workerVars, forVars, growVars, bi, bIter>>

\* for (; threadsInPool > 0; ...) { threadInfo = info[threadsInPool - 1];
KillNext ==
    /\ bpc = "k_loop"
    /\ threadsInPool > 0
    /\ bpc' = "k_poll"
    /\ UNCHANGED <<poolVars, workerVars, callVars, forVars, growVars, bi, bIter,
                   histVars>>

\* the loop of killall ends: killall returns
KillReturn ==
    /\ bpc = "k_loop"
    /\ ~(threadsInPool > 0)
    /\ bpc' = "ready"
    /\ UNCHANGED <<poolVars, workerVars, callVars, forVars, growVars, bi, bIter,
                   histVars>>

\* while (threadInfo.state != THREAD_IDLE) wait(20);
KillPollIdle ==
    /\ bpc = "k_poll"
    /\ info[threadsInPool - 1].state = THREAD_IDLE
    /\ bpc' = "k_setdone"
    /\ UNCHANGED <<poolVars, workerVars, callVars, forVars, growVars, bi, bIter,
                   histVars>>

\* threadInfo.state = THREAD_DONE;
KillSetDone ==
    /\ bpc = "k_setdone"
    /\ info' = [info EXCEPT ![threadsInPool - 1].state = THREAD_DONE]
    /\ bpc' = "k_signal"
    /\ UNCHANGED <<threadsInPool, counter, workerVars, callVars, forVars, growVars,
                   bi, bIter, histVars>>

\* threadInfo.changedState.signal();
KillSignal ==
    /\ bpc = "k_signal"
    /\ SignalChangedState(threadsInPool - 1)
    /\ bpc' = "k_polldead"
    /\ UNCHANGED <<poolVars, wargs, wi, callVars, forVars, growVars, bi, bIter,
                   histVars>>

\* A killall that does not poll for THREAD_DEAD before it releases the thread.
SeenAnything(s) == TRUE

\* A killall that stops polling once the worker has been told to finish.
SeenDoneOrDead(s) == info[s].state \in {THREAD_DONE, THREAD_DEAD}

\* while (threadInfo.state != THREAD_DEAD) wait(20);
SeenDead(s) == info[s].state = THREAD_DEAD

\* ... threadInfo.handle.detach(); threadsInPool--
KillDetach ==
    /\ bpc = "k_polldead"
    /\ SeenDead(threadsInPool - 1)
    /\ threadsInPool' = threadsInPool - 1
    /\ bpc' = "k_loop"
    /\ spawned' = [spawned EXCEPT ![threadsInPool - 1] = 0]
    /\ maxReq' = 0
    /\ UNCHANGED <<counter, info, workerVars, callVars, forVars, bi, bIter,
                   histVars>>

(***************************************************************************)
(* The worker of slot s: ThreadManager::exec(&info[s])                     *)
(***************************************************************************)
\* info->state = THREAD_IDLE;
ExecSetIdle(s) ==
    /\ wpc[s] = "set_idle"
    /\ info' = [info EXCEPT ![s].state = THREAD_IDLE]
    /\ wpc' = [wpc EXCEPT ![s] = "call_wait"]
    /\ UNCHANGED <<threadsInPool, counter, wargs, wi, bpc, callVars, forVars,
                   growVars, bi, bIter, histVars>>

\* info->changedState.wait(): the worker locks the mutex and blocks
ExecWait(s) ==
    /\ wpc[s] = "call_wait"
    /\ wpc' = [wpc EXCEPT ![s] = "waiting"]
    /\ UNCHANGED <<poolVars, wargs, wi, bpc, callVars, forVars, growVars, bi, bIter,
                   histVars>>

\* c.wait(lk) of changedState returns without a notification
SpuriousWake(s) ==
    /\ wpc[s] = "waiting"
    /\ wpc' = [wpc EXCEPT ![s] = "switch"]
    /\ UNCHANGED <<poolVars, wargs, wi, bpc, callVars, forVars, growVars, bi, bIter,
                   histVars>>

\* switch (info->state): where the worker goes for the state it reads
SwitchTarget(st) ==
    CASE st = THREAD_RUNNING -> "call"
      [] st = THREAD_DONE -> "set_dead"
      [] OTHER -> "set_idle"

ExecSwitch(s) ==
    /\ wpc[s] = "switch"
    /\ wpc' = [wpc EXCEPT ![s] = SwitchTarget(info[s].state)]
    /\ UNCHANGED <<poolVars, wargs, wi, bpc, callVars, forVars, growVars, bi, bIter,
                   histVars>>

\* job = info->algorithm; if (job) job->threadProc(info->index, info->numThreads);
ExecCall(s) ==
    /\ wpc[s] = "call"
    /\ IF info[s].algorithm = NULL
          THEN /\ wpc' = [wpc EXCEPT ![s] = "dec"]
               /\ UNCHANGED <<wargs, procCalls, procN>>
          ELSE /\ wargs' = [wargs EXCEPT ![s] = <<info[s].index, info[s].numThreads>>]
               /\ RecordProc(info[s].index, info[s].numThreads)
               /\ wpc' = [wpc EXCEPT ![s] =
                            IF info[s].algorithm = "B" THEN "claim" ELSE "procA"]
    /\ UNCHANGED <<poolVars, wi, bpc, callVars, forVars, growVars, bi, bIter,
                   bodyCalls>>

\* A::threadProc, executed by the worker of slot s, returns
ExecProcA(s) ==
    /\ wpc[s] = "procA"
    /\ wpc' = [wpc EXCEPT ![s] = "dec"]
    /\ UNCHANGED <<poolVars, wargs, wi, bpc, callVars, forVars, growVars, bi, bIter,
                   histVars>>

\* A loop test with a pre-increment: (i = ++idx) < count.
ExecClaimPreIncrement(s) ==
    /\ wpc[s] = "claim"
    /\ idx' = idx + 1
    /\ IF Claimed(idx + 1, count)
          THEN wi' = [wi EXCEPT ![s] = idx + 1] /\ wpc' = [wpc EXCEPT ![s] = "body"]
          ELSE wi' = [wi EXCEPT ![s] = 0] /\ wpc' = [wpc EXCEPT ![s] = "dec"]
    /\ UNCHANGED <<poolVars, wargs, bpc, callVars, count, growVars, bi, bIter,
                   histVars>>

\* while ((i = idx++) < count), executed by the worker of slot s
ExecClaim(s) ==
    /\ wpc[s] = "claim"
    /\ idx' = idx + 1
    /\ IF Claimed(idx, count)
          THEN wi' = [wi EXCEPT ![s] = idx] /\ wpc' = [wpc EXCEPT ![s] = "body"]
          ELSE wi' = [wi EXCEPT ![s] = 0] /\ wpc' = [wpc EXCEPT ![s] = "dec"]
    /\ UNCHANGED <<poolVars, wargs, bpc, callVars, count, growVars, bi, bIter,
                   histVars>>

\* body(i, index, numThreads), executed by the worker of slot s
ExecBody(s) ==
    /\ wpc[s] = "body"
    /\ RecordBody(wi[s], wargs[s][1])
    /\ wpc' = [wpc EXCEPT ![s] = "claim"]
    /\ UNCHANGED <<poolVars, wargs, wi, bpc, callVars, forVars, growVars, bi, bIter,
                   procCalls, procN>>

\* if (0 == --cnt)
ExecDec(s) ==
    /\ wpc[s] = "dec"
    /\ counter' = counter - 1
    /\ wpc' = [wpc EXCEPT ![s] = IF counter - 1 = 0 THEN "release" ELSE "set_idle"]
    /\ wargs' = [wargs EXCEPT ![s] = NoArgs]
    /\ UNCHANGED <<threadsInPool, info, wi, bpc, callVars, forVars, growVars, bi,
                   bIter, histVars>>

\* info->releaseMainThread->signal();
ExecRelease(s) ==
    /\ wpc[s] = "release"
    /\ bpc' = SignalWaitForThreads
    /\ wpc' = [wpc EXCEPT ![s] = "set_idle"]
    /\ UNCHANGED <<poolVars, wargs, wi, callVars, forVars, growVars, bi, bIter,
                   histVars>>

\* info->state = THREAD_DEAD; exec returns
ExecSetDead(s) ==
    /\ wpc[s] = "set_dead"
    /\ info' = [info EXCEPT ![s].state = THREAD_DEAD]
    /\ wpc' = [wpc EXCEPT ![s] = "exited"]
    /\ UNCHANGED <<threadsInPool, counter, wargs, wi, bpc, callVars, forVars,
                   growVars, bi, bIter, histVars>>

(***************************************************************************)
(* The specification                                                       *)
(***************************************************************************)
BossStep ==
    \/ RunSingle \/ BossProcA \/ BossClaim \/ BossBody \/ RunMulti \/ RunSpawn \/ RunSetCounter
    \/ RunInitSlot \/ RunPollIdle \/ RunSetRunning \/ RunSignal \/ RunLoopEnd
    \/ RunWait \/ RunRound
    \/ KillNext \/ KillReturn \/ KillPollIdle \/ KillSetDone \/ KillSignal
    \/ KillDetach

WorkerStep(s) ==
    \/ ExecSetIdle(s) \/ ExecWait(s) \/ ExecSwitch(s) \/ ExecCall(s)
    \/ ExecProcA(s) \/ ExecClaim(s) \/ ExecBody(s) \/ ExecDec(s) \/ ExecRelease(s)
    \/ ExecSetDead(s)

\* The caller: any sequence of sequential calls on one pool and one task
\* instance of each type.
Call ==
    \/ \E n \in 1 .. MaxThreads : CallRun(n)
    \/ \E m \in 0 .. MaxIter, n \in 1 .. MaxForThreads : CallForRun(m, n)
    \/ CallKillall

Next ==
    \/ Call
    \/ BossStep
    \/ \E s \in Slots : WorkerStep(s)
    \/ BossSpuriousWake
    \/ \E s \in Slots : SpuriousWake(s)

Spec == Init /\ [][Next]_vars

\* The behaviours in which every return of c.wait(lk) follows a notification.
SignalNext ==
    \/ Call
    \/ BossStep
    \/ \E s \in Slots : WorkerStep(s)

\* Fair scheduling of the boss and of every worker thread: a thread that can
\* take a step eventually takes one.  The caller may stop calling, and a
\* wake-up without notification is never guaranteed.
FairSignalSpec ==
    /\ Init /\ [][SignalNext]_vars
    /\ WF_vars(BossStep)
    /\ \A s \in Slots : WF_vars(WorkerStep(s))

(***************************************************************************)
(* Vocabulary of the properties                                            *)
(***************************************************************************)
KillPcs == {"k_loop", "k_poll", "k_setdone", "k_signal", "k_polldead"}
FastPcs == {"r_entry", "b_procA", "b_claim", "b_body"}
DispatchPcs == {"r_init", "r_poll", "r_setrun", "r_signal", "r_wait", "r_waiting",
                "r_round"}

\* The boss is inside a call of run / of killall.
InRun == bpc \notin (KillPcs \cup {"ready"})
InKillall == bpc \in KillPcs
\* The last call was a run, and it has returned.
RunReturned == bpc = "ready" /\ job # NULL
\* The last call was a killall (or there was none), and it has returned.
KillallReturned == bpc = "ready" /\ job = NULL
\* The worker of slot s is inside job->threadProc.
InProc(s) == wpc[s] \in {"procA", "claim", "body"}

ProcOncePerIndex ==
    \A s \in Slots :
        /\ procCalls[s] = (IF s < numThreads THEN 1 ELSE 0)
        /\ s < numThreads => procN[s] = numThreads

BodyOncePerIteration ==
    \A k \in IterRange : bodyCalls[k] = (IF k < count THEN 1 ELSE 0)

\* C1: when run(T, N) has returned, threadProc has been invoked exactly once
\* with each index in [0, N) and with no other index, each time with N as its
\* worker count.
C1_ExactlyOncePerIndex == RunReturned => ProcOncePerIndex

\* C2: when a fork-join run over M iterations has returned, body has been
\* invoked exactly once for each iteration index in [0, M) and for no other.
C2_BodyOncePerIteration == (RunReturned /\ job = "B") => BodyOncePerIteration

\* C3: run is a barrier.  When a run has returned no worker is inside
\* threadProc and every participating slot is Idle; a worker is inside
\* threadProc only while the boss is between the dispatch loop and the
\* round-robin loop of the run that released it, with that run's arguments.
C3_RunIsBarrier ==
    /\ RunReturned =>
          \A s \in Slots :
              /\ ~InProc(s)
              /\ (numThreads >= 2 /\ s < numThreads) => info[s].state = THREAD_IDLE
    /\ \A s \in Slots :
          InProc(s) =>
              /\ bpc \in DispatchPcs
              /\ s < numThreads
              /\ info[s].state = THREAD_RUNNING
              /\ wargs[s] = <<s, numThreads>>

\* A run on three workers has returned after all three ran the task.
C3_Witness ==
    /\ RunReturned
    /\ numThreads = 3
    /\ \A s \in Slots : s < 3 => procCalls[s] = 1

\* C4: under fair scheduling every call of run eventually returns.
C4_RunTerminates == InRun ~> (bpc = "ready")

\* C5: run(T, 1) invokes threadProc(0, 1) once, on the boss, and changes nothing
\* of the pool: no thread is started, threadsInPool, counter and every slot's
\* fields keep their values, the boss neither signals nor waits, and no worker
\* enters threadProc.
InFastPath == numThreads = 1 /\ bpc \in FastPcs

C5_FastPath ==
    [][InFastPath =>
          /\ UNCHANGED <<threadsInPool, counter, info, spawned>>
          /\ bpc' \in (FastPcs \cup {"ready"})
          /\ \A s \in Slots : ~InProc(s)'
          /\ bpc' = "ready" =>
                /\ procCalls' = [s \in Slots |-> IF s = 0 THEN 1 ELSE 0]
                /\ procN'[0] = 1]_vars

\* A single-thread run of the fork-join task has returned on a pool that
\* holds worker threads.
C5_Witness ==
    /\ RunReturned
    /\ numThreads = 1
    /\ job = "B"
    /\ count = 2
    /\ bodyCalls[1] = 1
    /\ threadsInPool = 2

\* C6: when killall has returned, threadsInPool is 0 and every slot that was
\* populated is Dead with its worker out of exec; a killall on an empty pool
\* returns at once and touches no slot, no counter and no worker.
C6_KillallPost ==
    /\ [](KillallReturned =>
            /\ threadsInPool = 0
            /\ \A s \in Slots :
                  /\ info[s].state \in {Unset, THREAD_DEAD}
                  /\ wpc[s] \in {"none", "exited"})
    /\ [][(bpc = "k_loop" /\ threadsInPool = 0) =>
            (bpc' = "ready" /\ UNCHANGED <<poolVars, workerVars>>)]_vars

\* A killall has returned after tearing down three workers.
C6_Witness ==
    /\ KillallReturned
    /\ \A s \in Slots : s < 3 => (info[s].state = THREAD_DEAD /\ wpc[s] = "exited")

\* C7: under fair scheduling every call of killall eventually returns.
C7_KillallTerminates == InKillall ~> (bpc = "ready")

\* C8: threadsInPool decreases only in killall; a thread is started only for
\* slot threadsInPool, once per slot between teardowns; between calls the
\* pool holds exactly as many threads as the largest worker count >= 2
\* requested since the last teardown (so a run leaves max(previous, N)).
C8_MonotonicGrowth ==
    /\ [](bpc = "ready" =>
            /\ threadsInPool = maxReq
            /\ spawned = [s \in Slots |-> IF s < maxReq THEN 1 ELSE 0])
    /\ [][/\ threadsInPool' < threadsInPool => bpc = "k_polldead"
          /\ InRun => threadsInPool' >= threadsInPool
          /\ \A s \in Slots :
                spawned'[s] > spawned[s] =>
                    /\ s = threadsInPool
                    /\ threadsInPool' = threadsInPool + 1
                    /\ spawned[s] = 0]_vars

\* A run on two workers has returned on a pool that holds three.
C8_Witness ==
    /\ RunReturned
    /\ numThreads = 2
    /\ procCalls[1] = 1
    /\ threadsInPool = 3

\* C9: a fork-join run starts with the cursor at 0, whatever earlier runs left
\* in it; during the run the cursor never decreases and the count stays; and
\* when the run returns body has been invoked exactly once per index in
\* [0, count), in the first run of the task instance and in every later one.
C9_ForReuse ==
    [][/\ (bpc = "ready" /\ bpc' = "r_entry" /\ job' = "B") => idx' = 0
       /\ (InRun /\ job = "B") =>
             /\ idx' >= idx
             /\ count' = count
             /\ bpc' = "ready" => BodyOncePerIteration']_vars

\* C10: a slot's state changes only Init->Idle, Running->Idle, Done->Dead (by
\* its worker) and Idle->Running, Idle->Done (by the boss); the worker turns
\* Running into Idle only after it ran the task; Dead never changes.
WorkerChanges == {<<THREAD_INIT, THREAD_IDLE>>, <<THREAD_RUNNING, THREAD_IDLE>>,
                  <<THREAD_DONE, THREAD_DEAD>>}
BossChanges == {<<THREAD_IDLE, THREAD_RUNNING>>, <<THREAD_IDLE, THREAD_DONE>>}

C10_Lifecycle ==
    [][\A s \in Slots :
          (info'[s].state # info[s].state /\ info[s].state # Unset) =>
              /\ \/ /\ <<info[s].state, info'[s].state>> \in WorkerChanges
                    /\ wpc'[s] # wpc[s]
                 \/ /\ <<info[s].state, info'[s].state>> \in BossChanges
                    /\ bpc' # bpc
              /\ info[s].state = THREAD_RUNNING => procCalls[s] = 1]_vars

\* C11: in every reachable state a slot whose state is Idle has its worker
\* blocked in changedState.wait(), so a signal the boss issues after it saw
\* Idle finds the worker waiting.
C11_IdleMeansParked ==
    \A s \in Slots : info[s].state = THREAD_IDLE => wpc[s] = "waiting"

\* C12: the boss writes Running or Done into a slot only over Idle, never
\* over Running; a slot leaves Running only by a write of its own worker; and
\* the worker never writes the state while a write of the boss that it has
\* not read yet is in the slot (both writing between two observations).
BossWriteUnread(s) ==
    \/ info[s].state = THREAD_DONE
    \/ info[s].state = THREAD_RUNNING /\ procCalls[s] = 0 /\ info[s].algorithm # NULL

C12_SingleWriter ==
    [][\A s \in Slots :
          /\ (bpc' # bpc /\ info'[s].state # info[s].state
                /\ info'[s].state \in {THREAD_RUNNING, THREAD_DONE}) =>
                info[s].state = THREAD_IDLE
          /\ (info[s].state = THREAD_RUNNING /\ info'[s].state # THREAD_RUNNING) =>
                (wpc'[s] # wpc[s] /\ bpc' = bpc)
          /\ (wpc[s] = "set_idle" /\ wpc'[s] # wpc[s]) => ~BossWriteUnread(s)]_vars

\* C13: in a run with N >= 2 the counter is N when the first worker is
\* released, is N minus the number of participating workers that have returned
\* from threadProc and decremented, stays within [0, N] and is 0 when run
\* returns; the release signal is issued by one worker only, with the counter
\* at 0 and every participating worker back from threadProc.
Decremented(s) ==
    procCalls[s] >= 1 /\ wpc[s] \notin {"procA", "claim", "body", "dec"}

C13_CounterProtocol ==
    (numThreads >= 2 /\ (bpc \in DispatchPcs \/ RunReturned)) =>
        /\ counter \in 0 .. numThreads
        /\ counter = numThreads - Cardinality({s \in Slots : Decremented(s)})
        /\ \A s \in Slots : Decremented(s) => s < numThreads
        /\ RunReturned => counter = 0
        /\ \A s \in Slots :
              wpc[s] = "release" =>
                  /\ counter = 0
                  /\ \A t \in Slots : t < numThreads => (t = s \/ Decremented(t))
                  /\ \A t \in Slots : wpc[t] = "release" => t = s

\* C14: killall tears the live slots down from the highest index, one at a
\* time: a slot is set to Done only when it is the highest live slot, it is
\* Idle and every slot above it is Dead (or was never populated); its thread
\* is released and threadsInPool is decremented, by one, only when it is Dead.
C14_TeardownOrder ==
    [][/\ \A s \in Slots :
             (info[s].state # THREAD_DONE /\ info'[s].state = THREAD_DONE) =>
                 /\ s = threadsInPool - 1
                 /\ info[s].state = THREAD_IDLE
                 /\ \A t \in Slots : t > s => info[t].state \in {Unset, THREAD_DEAD}
                 /\ \A t \in Slots : t # s => info'[t].state # THREAD_DONE
       /\ threadsInPool' < threadsInPool =>
             /\ threadsInPool' = threadsInPool - 1
             /\ info[threadsInPool - 1].state = THREAD_DEAD
             /\ wpc[threadsInPool - 1] = "exited"
       /\ \A s \in Slots :
             spawned'[s] < spawned[s] =>
                 (s = threadsInPool - 1 /\ info[s].state = THREAD_DEAD)]_vars

\* Slot 2 has been torn down and slot 1 has just been set to Done.
C14_Witness ==
    /\ bpc = "k_signal"
    /\ threadsInPool = 2
    /\ info[2].state = THREAD_DEAD
    /\ info[1].state = THREAD_DONE
    /\ info[0].state = THREAD_IDLE

\* C15: every fetch-and-increment of the cursor returns the value before it
\* and adds one, so successive claims return 0, 1, 2, ...; and when a thread
\* claims iteration i, no body invocation of this run (its own included) has
\* had an index >= i, so each thread's indices are strictly increasing.
C15_ClaimOrder ==
    [][/\ idx' # idx => (idx' = idx + 1 \/ (bpc = "ready" /\ idx' = 0))
       /\ (bpc = "r_entry" /\ job = "B") => idx = 0
       /\ \A s \in Slots :
             (wpc[s] = "claim" /\ wpc'[s] = "body") =>
                 /\ wi'[s] = idx
                 /\ idx' = idx + 1
                 /\ \A k \in IterRange : k >= idx => bodyCalls[k] = 0
                 /\ \A t \in Slots : wpc[t] = "body" => wi[t] < idx
       /\ (bpc = "b_claim" /\ bpc' = "b_body") =>
             /\ bIter' = idx
             /\ idx' = idx + 1
             /\ \A k \in IterRange : k >= idx => bodyCalls[k] = 0]_vars

\* Iteration 1, claimed second, has completed while the worker that claimed
\* iteration 0 is still inside body.
C15_Witness ==
    /\ bodyCalls[1] = 1
    /\ bodyCalls[0] = 0
    /\ \E s \in Slots : wpc[s] = "body" /\ wi[s] = 0

\* C16: in every reachable state a slot whose state is Idle has a null task
\* reference.
C16_NullWhenIdle ==
    \A s \in Slots : info[s].state = THREAD_IDLE => info[s].algorithm = NULL

\* C17: whenever a worker signals waitForThreads, the boss is blocked in
\* waitForThreads.wait().
C17_NoLostRelease ==
    [][\A s \in Slots :
          (wpc[s] = "release" /\ wpc'[s] # "release") => bpc = "r_waiting"]_vars

\* C18: a worker decrements and signals waitForThreads while its slot is still
\* Running, inside the run that released it; a slot is Running only inside a
\* run, which returns after the slot is Idle; and a signal that wakes the boss
\* comes from a worker that ran the task in the boss's current run.
C18_NoStaleRelease ==
    /\ [](\A s \in Slots :
            /\ wpc[s] \in {"dec", "release"} =>
                  (info[s].state = THREAD_RUNNING /\ procCalls[s] = 1)
            /\ info[s].state = THREAD_RUNNING =>
                  (bpc \in DispatchPcs /\ s < numThreads))
    /\ [][\A s \in Slots :
            (wpc[s] = "release" /\ wpc'[s] # "release" /\ bpc' # bpc) =>
                /\ bpc = "r_waiting"
                /\ s < numThreads
                /\ procCalls[s] = 1
                /\ counter = 0]_vars

\* In a run on two workers of a pool of three, the releasing worker has woken
\* the boss and has not yet set its slot back to Idle.
C18_Witness ==
    /\ bpc = "r_round"
    /\ threadsInPool = 3
    /\ numThreads = 2
    /\ counter = 0
    /\ \E s \in Slots : wpc[s] = "set_idle" /\ info[s].state = THREAD_RUNNING

\* C19: during a run(T, N) with 2 <= N < threadsInPool every slot j >= N stays
\* Idle with its index, numThreads and task unchanged, its worker stays in the
\* idle part of exec and is not signalled, invokes no threadProc and does not
\* touch the counter.
C19_NonParticipants ==
    [][\A j \in Slots :
          (InRun /\ numThreads >= 2 /\ numThreads <= j /\ j < threadsInPool) =>
              /\ info[j].state = THREAD_IDLE
              /\ info'[j] = info[j]
              /\ wpc'[j] \in {"set_idle", "call_wait", "waiting", "switch"}
              /\ bpc = "r_signal" => bi # j
              /\ (wpc[j] = "waiting" /\ wpc'[j] # "waiting") => bpc' = bpc
              /\ procCalls'[j] = 0
              /\ wargs'[j] = NoArgs
              /\ wpc'[j] # wpc[j] => counter' = counter]_vars

\* A run on two workers of a pool of three is under way: worker 0 is inside
\* threadProc and the worker of slot 2 is parked.
C19_Witness ==
    /\ threadsInPool = 3
    /\ numThreads = 2
    /\ InProc(0)
    /\ info[2].state = THREAD_IDLE
    /\ wpc[2] = "waiting"

\* C20: when a fork-join run over M iterations on N threads has returned, the
\* cursor is M + N: M successful claims and one failing claim per thread.
C20_CursorOvershoot ==
    (RunReturned /\ job = "B") => idx = count + numThreads

====
